---------------------------- MODULE Spec2Model ----------------------------
(***************************************************************************)
(* Kai Capsule Service (src/main.py): the capsules table, the request      *)
(* handlers create / list / get / delete / detect_collisions / stats and   *)
(* the pure helpers they call; and the create and delete handlers of the   *)
(* Capsule CRUD API (src/main_crud.py) over its own capsules table.        *)
(*                                                                         *)
(* Conventions of the model                                                *)
(*   - Python None and SQL NULL are the sentinel None; no input string     *)
(*     equals it.                                                          *)
(*   - A request body is a record that holds only the fields the caller    *)
(*     sent; an absent optional field takes its pydantic default.          *)
(*   - Quality scores are integers in hundredths (66.25 is 6625), collision*)
(*     scores and thresholds are integers in thousandths (0.6 is 600).     *)
(*   - Time is an integer tick; TicksPerSecond ticks make one second.      *)
(*     created_at is the tick (isoformat strings order as their instants   *)
(*     do), the id's timestamp is the second the tick lies in.             *)
(***************************************************************************)
EXTENDS Integers, Sequences, FiniteSets, TLC

VARIABLES
    capsules,   \* the capsules table: id -> row (id is the PRIMARY KEY)
    clock,      \* datetime.utcnow(), in ticks
    last,       \* the last request and its response
    deleted,    \* history: ids whose delete has succeeded
    returned,   \* history: id -> the record create returned for it
    collisions, \* the collisions table: a set of rows
    pending,    \* detect requests that have read their target and not yet scanned
    crud_capsules,  \* the capsules table of main_crud.py: id -> row
    workers     \* main_crud.py: the threadpool's requests in progress

crud_vars == <<crud_capsules, workers>>

vars == <<capsules, clock, last, deleted, returned, collisions, pending, crud_vars>>

None == "<None>"

----------------------------------------------------------------------------
(* Bounds of the model *)

MaxCapsules == 3
MaxClock == 3
TicksPerSecond == 2
MaxDeletes == 1
MaxWorkers == 2
MaxPending == 1

(* Program constants *)

KeywordMinLen == 3
KeywordCap == 5
ListDefaultLimit == 20
ListHardCap == 100
CollisionCap == 20
DefaultThreshold == 500

----------------------------------------------------------------------------
(* Arithmetic and sequence helpers *)

Min(a, b) == IF a <= b THEN a ELSE b

Max(a, b) == IF a >= b THEN a ELSE b

\* Python's round(): n / d to the nearest integer, a tie to the even one
\* (n >= 0, d > 0).
RoundHalfEven(n, d) ==
    LET q == n \div d
        r == n % d
    IN  IF 2 * r < d THEN q
        ELSE IF 2 * r > d THEN q + 1
        ELSE IF q % 2 = 0 THEN q ELSE q + 1

Range(s) == { s[i] : i \in 1..Len(s) }

\* s[:n] for n >= 0
Take(s, n) == SubSeq(s, 1, Min(n, Len(s)))

\* The orders in which the members of the finite set S can be enumerated.
RECURSIVE Orderings(_)
Orderings(S) ==
    IF S = {} THEN {<< >>}
    ELSE UNION { { <<x>> \o rest : rest \in Orderings(S \ {x}) } : x \in S }

----------------------------------------------------------------------------
(* extract_keywords *)

Whitespace == {" ", "\t", "\n", "\r"}

UpperToLower ==
    [A |-> "a", B |-> "b", C |-> "c", D |-> "d", E |-> "e", F |-> "f", G |-> "g",
     H |-> "h", I |-> "i", J |-> "j", K |-> "k", L |-> "l", M |-> "m", N |-> "n",
     O |-> "o", P |-> "p", Q |-> "q", R |-> "r", S |-> "s", T |-> "t", U |-> "u",
     V |-> "v", W |-> "w", X |-> "x", Y |-> "y", Z |-> "z"]

\* str.lower()
RECURSIVE lower(_)
lower(s) ==
    IF s = "" THEN ""
    ELSE LET c == SubSeq(s, 1, 1)
         IN  (IF c \in DOMAIN UpperToLower THEN UpperToLower[c] ELSE c)
                 \o lower(SubSeq(s, 2, Len(s)))

\* str.split(): the maximal runs of non-whitespace characters, in order.
RECURSIVE SplitFrom(_, _, _)
SplitFrom(s, i, word) ==
    IF i > Len(s) THEN (IF word = "" THEN << >> ELSE <<word>>)
    ELSE LET c == SubSeq(s, i, i)
         IN  IF c \in Whitespace
             THEN (IF word = "" THEN << >> ELSE <<word>>) \o SplitFrom(s, i + 1, "")
             ELSE SplitFrom(s, i + 1, word \o c)

split(s) == SplitFrom(s, 1, "")

stopwords ==
    {"the", "a", "an", "is", "are", "was", "were", "be", "been",
     "being", "have", "has", "had", "do", "does", "did", "will",
     "would", "could", "should", "may", "might", "must", "shall",
     "of", "in", "for", "on", "with", "at", "by", "from", "as",
     "into", "through", "during", "before", "after", "above"}

\* [w for w in words if len(w) > 3 and w not in stopwords]
SurvivingWords(words) ==
    SelectSeq(words, LAMBDA w : Len(w) > KeywordMinLen /\ w \notin stopwords)

\* A slip: the surviving words without the cut to the first 5.
KeywordList_uncut(content) == SurvivingWords(split(lower(content)))

\* The list before list(set(...)): the first 5 surviving lower-cased words.
KeywordList(content) == Take(SurvivingWords(split(lower(content))), KeywordCap)

\* extract_keywords returns list(set(keywords)): the distinct keywords in the
\* iteration order of a Python set, which is any order.
extract_keywords(content) == Orderings(Range(KeywordList(content)))

----------------------------------------------------------------------------
(* json.dumps / json.loads on the values the service serializes *)

Quote == "\""

RECURSIVE JoinWith(_, _)
JoinWith(items, sep) ==
    IF items = << >> THEN ""
    ELSE IF Len(items) = 1 THEN items[1]
    ELSE items[1] \o sep \o JoinWith(Tail(items), sep)

QuoteAll(items) == [i \in 1..Len(items) |-> Quote \o items[i] \o Quote]

\* json.dumps of a list of strings (no character of a tag needs escaping)
json_dumps(tags) == "[" \o JoinWith(QuoteAll(tags), ", ") \o "]"

\* json.dumps of a dict, given as the sequence of its <<key, value>> members
json_dumps_dict(members) ==
    "{" \o JoinWith([i \in 1..Len(members) |->
                        Quote \o members[i][1] \o Quote \o ": "
                            \o Quote \o members[i][2] \o Quote], ", ") \o "}"

\* The places of the quotation marks in a JSON text, and the n-th of them
QuotesIn(text) == { i \in 1..Len(text) : SubSeq(text, i, i) = Quote }

NthOf(places, n) == CHOOSE p \in places : Cardinality({ q \in places : q < p }) = n - 1

\* json.loads of the text of a list of strings: the items are what stands
\* between the 1st and 2nd quotation mark, the 3rd and 4th, and so on (no
\* item holds a quotation mark).
json_loads(text) ==
    LET quotes == QuotesIn(text)
    IN  [k \in 1..(Cardinality(quotes) \div 2) |->
            SubSeq(text, NthOf(quotes, 2 * k - 1) + 1, NthOf(quotes, 2 * k) - 1)]

----------------------------------------------------------------------------
(* generate_capsule_id *)

DigitChar == <<"0", "1", "2", "3", "4", "5", "6", "7", "8", "9">>

\* The second a tick lies in
SecondOf(tick) == tick \div TicksPerSecond

\* strftime("%Y%m%d%H%M%S") of the instant `second` seconds after
\* 2026-01-01 00:00:00 (second < 60)
strftime(second) ==
    "202601010000" \o DigitChar[(second \div 10) + 1] \o DigitChar[(second % 10) + 1]

\* hashlib.md5(text).hexdigest()[:8]: a function of the text alone; equal
\* texts give equal digests, and the few texts of the model give distinct ones.
md5_hex8(text) == "md5<" \o text \o ">"

generate_capsule_id(title, tick) ==
    LET timestamp == strftime(SecondOf(tick))
    IN  "capsule_" \o timestamp \o "_" \o md5_hex8(title \o timestamp)

----------------------------------------------------------------------------
(* calculate_datm_score *)

\* The draws of random.uniform the model takes, in hundredths <<truth,
\* goodness, beauty, intelligence>>: every sub-score at the low end of its
\* range (70, 65, 60, 70), and every one at the high end (95, 90, 85, 95) but
\* for a hundredth, so that the average falls between two hundredths.
ScoreDraws ==
    { <<7000, 6500, 6000, 7000>>, <<9500, 9000, 8500, 9499>> }

\* round((truth + goodness + beauty + intelligence) / 4, 2), in hundredths
calculate_datm_score(draw) ==
    RoundHalfEven(draw[1] + draw[2] + draw[3] + draw[4], 4)

----------------------------------------------------------------------------
(* Requests the callers send *)

\* POST /capsules bodies: the scenario's capsule A; its capsule B, with a
\* tag repeated and an empty content; a capsule D with five tags; a body
\* with an empty title that leaves tags and domain to the service; a body
\* with A's title whose tags are empty and whose content has no keyword;
\* and a body with no title at all.
CreateRequests ==
    { [title |-> "A", content |-> "Ocean heat drives the climate", source |-> "web",
       domain |-> "science", tags |-> <<"ocean", "climate">>,
       metadata |-> << <<"k", "v">> >>],
      [title |-> "B", content |-> "", domain |-> "science",
       tags |-> <<"ocean", "policy", "ocean">>, author |-> "Ann"],
      [title |-> "D", content |-> "Water", domain |-> "science",
       tags |-> <<"ocean", "climate", "water", "energy", "heat">>],
      [title |-> "", content |-> "The Energy is\tenergy ENERGY of sea energy\nEnergy policy",
       metadata |-> << >>],
      [title |-> "A", content |-> "The sea is hot", domain |-> "", tags |-> << >>],
      [content |-> "The sea is hot"] }

\* An id no create ever generated
AbsentId == "capsule_19990101000000_00000000"

\* The ids a caller may name: those it was given, and one it was not.
CallerIds == DOMAIN capsules \cup deleted \cup {AbsentId}

\* GET /collisions/{id} query strings; limit is a parameter the contract
\* names and a caller may send.
DetectQueries ==
    { << >>,
      [threshold |-> 300],
      [threshold |-> 0],
      [threshold |-> 300, limit |-> 1] }

\* GET /capsules query strings
ListQueries ==
    { << >>,
      [domain |-> "science"],
      [domain |-> ""],
      [min_score |-> 9000],
      [min_score |-> 0],
      [limit |-> 1],
      [limit |-> 0],
      [limit |-> -1],
      [limit |-> 101] }

\* A field of a request, or its default when the caller left it out
Field(req, name, default) == IF name \in DOMAIN req THEN req[name] ELSE default

----------------------------------------------------------------------------
(* create_capsule *)

\* CapsuleCreate: title and content are required strings; pydantic rejects
\* a body without them (422) and puts no other condition on them.
ValidCapsuleCreate(req) == {"title", "content"} \subseteq DOMAIN req

\* extract_keywords over the contents the requests of the model carry,
\* computed once
ExtractedKeywords ==
    [content \in { r.content : r \in { q \in CreateRequests : ValidCapsuleCreate(q) } }
        |-> extract_keywords(content)]

\* capsule.tags or extract_keywords(capsule.content): the lists tags can be
TagsFor(req) ==
    IF "tags" \in DOMAIN req /\ req.tags # << >>
    THEN {req.tags}
    ELSE ExtractedKeywords[req.content]

\* capsule.domain or "general"
DomainFor(req) ==
    IF "domain" \in DOMAIN req /\ req.domain # "" THEN req.domain ELSE "general"

\* json.dumps(capsule.metadata) if capsule.metadata else None
MetadataFor(req) ==
    IF "metadata" \in DOMAIN req /\ req.metadata # << >>
    THEN json_dumps_dict(req.metadata)
    ELSE None

\* The row of the INSERT
InsertedRow(req, capsule_id, now, tags, datm_score) ==
    [id |-> capsule_id, title |-> req.title, content |-> req.content,
     source |-> Field(req, "source", None), domain |-> DomainFor(req),
     tags |-> json_dumps(tags), datm_score |-> datm_score,
     author |-> Field(req, "author", "Kai"), created_at |-> now, updated_at |-> now,
     metadata |-> MetadataFor(req)]

\* The dict create_capsule returns
CreateResponse(req, capsule_id, now, tags, datm_score) ==
    [id |-> capsule_id, title |-> req.title, content |-> req.content,
     source |-> Field(req, "source", None), domain |-> DomainFor(req),
     tags |-> tags, datm_score |-> datm_score,
     author |-> Field(req, "author", "Kai"), created_at |-> now, updated_at |-> now]

\* A slip: INSERT OR REPLACE, which no id refuses.
PrimaryKeyFree_or_replace(db, capsule_id) == TRUE

\* INSERT INTO capsules: the PRIMARY KEY refuses a second row with the id.
PrimaryKeyFree(db, capsule_id) == capsule_id \notin DOMAIN db

\* The handler, with the quality scorer's draw.  A create that inserts takes
\* a tick: requests are served one at a time, so no two rows share a
\* created_at.
create_capsule(req, draw) ==
    IF ~ValidCapsuleCreate(req)
    THEN /\ last' = [op |-> "create", args |-> req, status |-> "ValidationError",
                     result |-> << >>]
         /\ UNCHANGED <<capsules, collisions, clock, deleted, returned>>
    ELSE \E tags \in TagsFor(req) :
           LET capsule_id == generate_capsule_id(req.title, clock)
               now        == clock
               datm_score == calculate_datm_score(draw)
               response   == CreateResponse(req, capsule_id, now, tags, datm_score)
           IN  IF PrimaryKeyFree(capsules, capsule_id)
               THEN /\ clock < MaxClock
                    /\ clock' = clock + 1
                    /\ capsules' =
                           [i \in DOMAIN capsules \cup {capsule_id} |->
                               IF i = capsule_id
                               THEN InsertedRow(req, capsule_id, now, tags, datm_score)
                               ELSE capsules[i]]
                    /\ returned' =
                           [i \in DOMAIN returned \cup {capsule_id} |->
                               IF i = capsule_id THEN response ELSE returned[i]]
                    /\ last' = [op |-> "create", args |-> req, status |-> "ok",
                                result |-> response]
                    /\ UNCHANGED <<collisions, deleted>>
               ELSE \* sqlite3.IntegrityError, which no handler catches
                    /\ last' = [op |-> "create", args |-> req,
                                status |-> "IntegrityError",
                                result |-> [id |-> capsule_id]]
                    /\ UNCHANGED <<capsules, collisions, clock, deleted, returned>>

Create ==
    /\ Cardinality(DOMAIN capsules) < MaxCapsules
    /\ \E req \in CreateRequests, draw \in ScoreDraws : create_capsule(req, draw)
    /\ UNCHANGED <<pending, crud_vars>>

\* Time passes between requests.
Tick ==
    /\ clock < MaxClock
    /\ clock' = clock + 1
    /\ UNCHANGED <<capsules, collisions, last, deleted, returned>>
    /\ UNCHANGED <<pending, crud_vars>>

----------------------------------------------------------------------------
(* get_capsule, list_capsules: rows as the handlers return them *)

\* json.loads over the tag texts the requests of the model can store,
\* computed once
LoadedTags ==
    [text \in { json_dumps(tags) :
                  tags \in UNION { TagsFor(req) :
                                     req \in { r \in CreateRequests : ValidCapsuleCreate(r) } } }
        |-> json_loads(text)]

\* json.loads(row['tags']) if row['tags'] else []  (a NULL or empty text is falsy)
RowTags(row) ==
    IF row.tags # None /\ row.tags # ""
    THEN (IF row.tags \in DOMAIN LoadedTags THEN LoadedTags[row.tags] ELSE json_loads(row.tags))
    ELSE << >>

\* The dict the read handlers build from a row
RowResponse(row) ==
    [id |-> row.id, title |-> row.title, content |-> row.content,
     source |-> row.source, domain |-> row.domain, tags |-> RowTags(row),
     datm_score |-> row.datm_score, author |-> row.author,
     created_at |-> row.created_at, updated_at |-> row.updated_at]

\* SELECT * FROM capsules WHERE id = ?, fetchone() is None
RowMissing(db, capsule_id) == capsule_id \notin DOMAIN db

get_capsule(capsule_id) ==
    /\ last' = IF RowMissing(capsules, capsule_id)
               THEN [op |-> "get", args |-> [capsule_id |-> capsule_id],
                     status |-> "NotFound", result |-> << >>]
               ELSE [op |-> "get", args |-> [capsule_id |-> capsule_id],
                     status |-> "ok", result |-> RowResponse(capsules[capsule_id])]
    /\ UNCHANGED <<capsules, collisions, clock, deleted, returned>>

Get ==
    /\ \E capsule_id \in CallerIds : get_capsule(capsule_id)
    /\ UNCHANGED <<pending, crud_vars>>

\* if domain: ... AND domain = ?      (None and "" add no condition)
DomainMatches(query, row) ==
    LET domain == Field(query, "domain", None)
    IN  (domain # None /\ domain # "") => row.domain = domain

\* if min_score: ... AND datm_score >= ?      (None and 0 add no condition)
ScoreMatches(query, row) ==
    LET min_score == Field(query, "min_score", 0)
    IN  min_score # 0 => row.datm_score >= min_score

\* LIMIT ? with min(limit, 100): SQLite returns every row for a negative LIMIT.
Limited(rows, limit) ==
    LET n == Min(limit, ListHardCap)
    IN  IF n < 0 THEN rows ELSE Take(rows, n)

\* ORDER BY created_at DESC: any order of the ids that puts no row before a
\* later-created one (rows created at the same instant come in any order).
NewestFirst(db, ids) ==
    { order \in Orderings(ids) :
        \A i, j \in 1..Len(order) :
            i < j => db[order[i]].created_at >= db[order[j]].created_at }

list_capsules(query) ==
    LET matching == { i \in DOMAIN capsules :
                        DomainMatches(query, capsules[i]) /\ ScoreMatches(query, capsules[i]) }
    IN  \E order \in NewestFirst(capsules, matching) :
           LET rows == Limited(order, Field(query, "limit", ListDefaultLimit))
           IN  /\ last' = [op |-> "list", args |-> query, status |-> "ok",
                           result |-> [k \in 1..Len(rows) |-> RowResponse(capsules[rows[k]])]]
               /\ UNCHANGED <<capsules, collisions, clock, deleted, returned>>

List ==
    /\ \E query \in ListQueries : list_capsules(query)
    /\ UNCHANGED <<pending, crud_vars>>

----------------------------------------------------------------------------
(* delete_capsule *)

\* A slip: the DELETE is taken to have removed a row whether or not one matched.
rowcount_always_one(db, capsule_id) == 1

\* cursor.rowcount after DELETE FROM capsules WHERE id = ?
rowcount(db, capsule_id) == IF capsule_id \in DOMAIN db THEN 1 ELSE 0

delete_capsule(capsule_id) ==
    IF rowcount(capsules, capsule_id) = 0
    THEN /\ last' = [op |-> "delete", args |-> [capsule_id |-> capsule_id],
                     status |-> "NotFound", result |-> << >>]
         /\ UNCHANGED <<capsules, collisions, clock, deleted, returned>>
    ELSE /\ Cardinality(deleted \cup {capsule_id}) <= MaxDeletes
         /\ capsules' = [i \in DOMAIN capsules \ {capsule_id} |-> capsules[i]]
         /\ returned' = [i \in DOMAIN returned \ {capsule_id} |-> returned[i]]
         /\ deleted' = deleted \cup {capsule_id}
         /\ last' = [op |-> "delete", args |-> [capsule_id |-> capsule_id],
                     status |-> "ok",
                     result |-> [status |-> "deleted", id |-> capsule_id]]
         /\ UNCHANGED <<collisions, clock>>

Delete ==
    /\ \E capsule_id \in CallerIds : delete_capsule(capsule_id)
    /\ UNCHANGED <<pending, crud_vars>>

----------------------------------------------------------------------------
(* detect_collisions *)

\* set(json.loads(row['tags']) if row['tags'] else [])
TagSet(row) == Range(RowTags(row))

\* A slip: the scan without its WHERE id != ? condition.
OtherCapsules_unfiltered(db, capsule_id) == DOMAIN db

\* SELECT * FROM capsules WHERE id != ?
OtherCapsules(db, capsule_id) == DOMAIN db \ {capsule_id}

\* A slip: the overlap over the size of the target's tag set.
similarity_of_target(target_tags, capsule_tags) ==
    IF target_tags # {} /\ capsule_tags # {}
    THEN <<Cardinality(target_tags \cap capsule_tags), Cardinality(target_tags)>>
    ELSE <<0, 1>>

\* A slip: true Jaccard, the overlap over the size of the union.
similarity_jaccard(target_tags, capsule_tags) ==
    IF target_tags # {} /\ capsule_tags # {}
    THEN <<Cardinality(target_tags \cap capsule_tags),
           Cardinality(target_tags \cup capsule_tags)>>
    ELSE <<0, 1>>

\* overlap / max(len(target_tags), len(capsule_tags)), or 0 when either set
\* is empty: the quotient as <<numerator, denominator>>
similarity(target_tags, capsule_tags) ==
    IF target_tags # {} /\ capsule_tags # {}
    THEN <<Cardinality(target_tags \cap capsule_tags),
           Max(Cardinality(target_tags), Cardinality(capsule_tags))>>
    ELSE <<0, 1>>

\* A slip: a bonus of 1.5 for a shared domain.
domain_bonus_15(capsule_domain, target_domain) ==
    IF capsule_domain = target_domain THEN 15 ELSE 10

\* 1.2 if capsule['domain'] == target_domain else 1.0, in tenths
domain_bonus(capsule_domain, target_domain) ==
    IF capsule_domain = target_domain THEN 12 ELSE 10

\* round(similarity * domain_bonus, 3), in thousandths.  No product of the
\* model lies halfway between two thousandths (that takes 16 tags or more),
\* so the binary representation of 1.2 decides no rounding here.
final_score(sim, bonus) == RoundHalfEven(sim[1] * bonus * 100, sim[2])

\* The entry appended for a candidate row
Collision(row, score) ==
    [capsule_id |-> row.id, title |-> row.title, domain |-> row.domain, score |-> score]

\* A slip: a score equal to the threshold does not collide.
Collides_above(score, threshold) == score > threshold

\* if final_score >= threshold
Collides(score, threshold) == score >= threshold

\* The loop over all_capsules, in the order the SELECT returned them
RECURSIVE CollisionsIn(_, _, _, _)
CollisionsIn(db, target, scan, threshold) ==
    IF scan = << >> THEN << >>
    ELSE LET capsule == db[Head(scan)]
             score   == final_score(similarity(TagSet(target), TagSet(capsule)),
                                    domain_bonus(capsule.domain, target.domain))
         IN  (IF Collides(score, threshold) THEN <<Collision(capsule, score)>> ELSE << >>)
                 \o CollisionsIn(db, target, Tail(scan), threshold)

\* collisions.sort(key=lambda x: x['score'], reverse=True): stable, so
\* entries of equal score keep their order.
RECURSIVE SortByScore(_)
SortByScore(entries) ==
    IF entries = << >> THEN << >>
    ELSE LET sorted == SortByScore(SubSeq(entries, 1, Len(entries) - 1))
             e      == entries[Len(entries)]
             k      == Cardinality({ i \in 1..Len(sorted) : sorted[i].score >= e.score })
         IN  SubSeq(sorted, 1, k) \o <<e>> \o SubSeq(sorted, k + 1, Len(sorted))

\* collisions[:20]
Truncated(entries) == Take(entries, CollisionCap)

\* A slip: the handler records each entry it reports in the collisions table.
collision_rows_written_recorded(capsule_id, entries) ==
    { [capsule_a_id |-> capsule_id, capsule_b_id |-> entries[k].capsule_id,
       score |-> entries[k].score] : k \in 1..Len(entries) }

\* The rows the handler adds to the collisions table: it executes no INSERT,
\* its entries exist in the response only.
collision_rows_written(capsule_id, entries) == {}

\* The query string's threshold is the only parameter the handler reads; any
\* other one (a limit) is dropped by the framework.
detect_collisions(capsule_id, query) ==
    IF RowMissing(capsules, capsule_id)
    THEN /\ last' = [op |-> "detect", args |-> [capsule_id |-> capsule_id, query |-> query],
                     status |-> "NotFound", result |-> << >>]
         /\ UNCHANGED <<capsules, collisions, clock, deleted, returned>>
    ELSE \E scan \in Orderings(OtherCapsules(capsules, capsule_id)) :
           LET threshold == Field(query, "threshold", DefaultThreshold)
               entries   == CollisionsIn(capsules, capsules[capsule_id], scan, threshold)
               result    == Truncated(SortByScore(entries))
           IN  /\ last' = [op |-> "detect",
                           args |-> [capsule_id |-> capsule_id, query |-> query],
                           status |-> "ok",
                           result |-> result]
               /\ collisions' = collisions \cup collision_rows_written(capsule_id, result)
               /\ UNCHANGED <<capsules, clock, deleted, returned>>

Detect ==
    /\ \E capsule_id \in CallerIds, query \in DetectQueries :
           detect_collisions(capsule_id, query)
    /\ UNCHANGED <<pending, crud_vars>>

----------------------------------------------------------------------------
(* detect_collisions, statement by statement.  The handler runs
     SELECT * FROM capsules WHERE id = ?      (the target, or 404)
     SELECT * FROM capsules WHERE id != ?     (the scan)
   with no transaction around the two.  On the event loop of one server
   process the coroutine has no await and runs whole (Detect above); with
   several processes serving the database file, a write another process
   commits can fall between the two statements.  The two steps below allow
   both. *)

\* The first SELECT: 404 at once, or the target row is held for the scan.
\* `before` is history: the table when the request began.
detect_fetch_target(capsule_id, query) ==
    IF RowMissing(capsules, capsule_id)
    THEN /\ last' = [op |-> "detect", args |-> [capsule_id |-> capsule_id, query |-> query],
                     status |-> "NotFound", result |-> << >>]
         /\ UNCHANGED <<capsules, collisions, clock, deleted, returned, pending>>
    ELSE /\ pending' = pending \cup
                           { [capsule_id |-> capsule_id, query |-> query,
                              target |-> capsules[capsule_id], before |-> capsules] }
         /\ UNCHANGED <<capsules, collisions, clock, deleted, returned, last>>

DetectFetch ==
    /\ Cardinality(pending) < MaxPending
    /\ \E capsule_id \in CallerIds, query \in DetectQueries :
           detect_fetch_target(capsule_id, query)
    /\ UNCHANGED crud_vars

\* The second SELECT, the loop, the sort and the cut
detect_scan(p) ==
    \E scan \in Orderings(OtherCapsules(capsules, p.capsule_id)) :
       LET threshold == Field(p.query, "threshold", DefaultThreshold)
           entries   == CollisionsIn(capsules, p.target, scan, threshold)
           result    == Truncated(SortByScore(entries))
       IN  /\ last' = [op |-> "detect",
                       args |-> [capsule_id |-> p.capsule_id, query |-> p.query],
                       status |-> "ok",
                       result |-> result]
           /\ collisions' = collisions \cup collision_rows_written(p.capsule_id, result)
           /\ pending' = pending \ {p}
           /\ UNCHANGED <<capsules, clock, deleted, returned>>

DetectScan ==
    /\ \E p \in pending : detect_scan(p)
    /\ UNCHANGED crud_vars

----------------------------------------------------------------------------
(* get_stats *)

\* A slip: the rows a DELETE removed are still counted.
CountRows_with_deleted(db) == Cardinality(DOMAIN db \cup deleted)

\* SELECT COUNT(*) FROM capsules
CountRows(db) == Cardinality(DOMAIN db)

RECURSIVE SumOfScores(_, _)
SumOfScores(db, ids) ==
    IF ids = {} THEN 0
    ELSE LET i == CHOOSE x \in ids : TRUE
         IN  db[i].datm_score + SumOfScores(db, ids \ {i})

\* round(AVG(datm_score) or 0, 2) in hundredths: AVG over no rows is NULL,
\* which `or 0` turns into 0.  No average of the model lies halfway between
\* two hundredths.
AverageScore(db) ==
    IF DOMAIN db = {} THEN 0
    ELSE RoundHalfEven(SumOfScores(db, DOMAIN db), Cardinality(DOMAIN db))

\* A slip: COUNT(DISTINCT domain), which is 1 in every group.
DomainCounts_distinct(db) ==
    [d \in { db[i].domain : i \in DOMAIN db } |->
        Cardinality({ db[i].domain : i \in { j \in DOMAIN db : db[j].domain = d } })]

\* SELECT domain, COUNT(*) FROM capsules GROUP BY domain, as a dict
DomainCounts(db) ==
    [d \in { db[i].domain : i \in DOMAIN db } |->
        Cardinality({ i \in DOMAIN db : db[i].domain = d })]

get_stats ==
    /\ last' = [op |-> "stats", args |-> << >>, status |-> "ok",
                result |-> [total_capsules |-> CountRows(capsules),
                            avg_datm_score |-> AverageScore(capsules),
                            domains |-> DomainCounts(capsules)]]
    /\ UNCHANGED <<capsules, collisions, clock, deleted, returned>>

Stats ==
    /\ get_stats
    /\ UNCHANGED <<pending, crud_vars>>

----------------------------------------------------------------------------
(* src/main_crud.py: create_capsule and delete_capsule.                     *)
(* Its handlers are plain `def` functions, which the framework runs in a   *)
(* threadpool, each request on a connection of its own (get_db connects     *)
(* anew): the statements of two requests interleave, each statement and     *)
(* its commit being one step.  The module opens "capsules.db" in its        *)
(* working directory and creates no table; the table has the columns its    *)
(* statements name, with id as the key.  A row holds the columns an INSERT  *)
(* names; the others are NULL.  Lines 25-26 of the file are garbled         *)
(* (`class):` for `class CapsuleUpdate(BaseModel):`); the two handlers      *)
(* modelled here do not use that class.                                     *)

\* The threads of the pool
Workers == 1..MaxWorkers

\* POST /capsules bodies: title, body and tags are required, author is not.
CrudRequests ==
    { [title |-> "A", body |-> "Ocean heat", tags |-> <<"ocean", "climate">>],
      [title |-> "B", body |-> "", tags |-> << >>, author |-> "Ann"] }

\* uuid.uuid4().hex[:8]: 8 hexadecimal digits, drawn at random
UuidDraws == {"0000000a", "0000000b"}

\* ",".join(capsule.tags)
comma_join(tags) == JoinWith(tags, ",")

\* The row of the INSERT: id, title, content, tags, author, created_at,
\* updated_at and version 1; domain and datm_score are not among its columns.
CrudInsertedRow(req, capsule_id, now) ==
    [id |-> capsule_id, title |-> req.title, content |-> req.body,
     tags |-> comma_join(req.tags), author |-> Field(req, "author", "Kai"),
     created_at |-> now, updated_at |-> now, version |-> 1]

\* The dict the handler returns
CrudCreateResponse(req, capsule_id, now) ==
    [id |-> capsule_id, title |-> req.title, body |-> req.body, tags |-> req.tags,
     datm_score |-> None, author |-> Field(req, "author", "Kai"),
     created_at |-> now, updated_at |-> now]

crud_create_capsule(req, draw) ==
    LET capsule_id == "capsule_" \o draw
        now        == clock
    IN  IF PrimaryKeyFree(crud_capsules, capsule_id)
        THEN /\ crud_capsules' =
                    [i \in DOMAIN crud_capsules \cup {capsule_id} |->
                        IF i = capsule_id THEN CrudInsertedRow(req, capsule_id, now)
                                          ELSE crud_capsules[i]]
             /\ last' = [op |-> "crud_create", args |-> req, status |-> "ok",
                         result |-> CrudCreateResponse(req, capsule_id, now)]
        ELSE /\ last' = [op |-> "crud_create", args |-> req, status |-> "IntegrityError",
                         result |-> [id |-> capsule_id]]
             /\ UNCHANGED crud_capsules

CrudCreate ==
    /\ \E req \in CrudRequests, draw \in UuidDraws : crud_create_capsule(req, draw)
    /\ UNCHANGED <<capsules, collisions, clock, deleted, returned, pending, workers>>

\* The requests that have run their SELECT and not yet their DELETE
InFlight == { w \in DOMAIN workers : workers[w].status = "running" }

\* A thread takes a delete request and runs
\*   SELECT * FROM capsules WHERE id = ?;  if not cursor.fetchone(): 404
\* `overlaps` is history: the requests in flight when this one began.
crud_delete_select(w, capsule_id) ==
    /\ w \notin InFlight
    /\ workers' =
           [v \in DOMAIN workers \cup {w} |->
               IF v = w
               THEN [capsule_id |-> capsule_id,
                     status |-> IF RowMissing(crud_capsules, capsule_id)
                                THEN "NotFound" ELSE "running",
                     overlaps |-> InFlight]
               ELSE [workers[v] EXCEPT !.overlaps = @ \ {w}]]
    /\ UNCHANGED <<crud_capsules, last>>

CrudDeleteSelect ==
    /\ \E w \in Workers, capsule_id \in DOMAIN crud_capsules \cup {AbsentId} :
           crud_delete_select(w, capsule_id)
    /\ UNCHANGED <<capsules, collisions, clock, deleted, returned, pending>>

\* The thread goes on: DELETE FROM capsules WHERE id = ?; commit; and the
\* answer "Capsule deleted", whatever the DELETE removed.
crud_delete_execute(w) ==
    /\ w \in InFlight
    /\ crud_capsules' =
           [i \in DOMAIN crud_capsules \ {workers[w].capsule_id} |-> crud_capsules[i]]
    /\ workers' = [workers EXCEPT ![w].status = "ok"]
    /\ UNCHANGED last

CrudDeleteExecute ==
    /\ \E w \in Workers : crud_delete_execute(w)
    /\ UNCHANGED <<capsules, collisions, clock, deleted, returned, pending>>

----------------------------------------------------------------------------

Init ==
    /\ capsules = << >>
    /\ clock = 0
    /\ last = [op |-> "init", args |-> << >>, status |-> "ok", result |-> << >>]
    /\ deleted = {}
    /\ returned = << >>
    /\ collisions = {}
    /\ pending = {}
    /\ crud_capsules = << >>
    /\ workers = << >>

Next ==
    \/ Create
    \/ Get
    \/ List
    \/ Delete
    \/ Detect
    \/ Stats
    \/ Tick

Spec == Init /\ [][Next]_vars

\* The service with writes of other requests between the two statements of
\* a detect
NextInterleaved ==
    \/ Create
    \/ Delete
    \/ DetectFetch
    \/ DetectScan
    \/ Tick

SpecInterleaved == Init /\ [][NextInterleaved]_vars

\* The Capsule CRUD API serving its requests
NextCrud ==
    \/ CrudCreate
    \/ CrudDeleteSelect
    \/ CrudDeleteExecute

SpecCrud == Init /\ [][NextCrud]_vars

----------------------------------------------------------------------------
(* What the claims speak of *)

\* The fields of a Capsule in the data model
CapsuleFields ==
    {"id", "title", "content", "source", "domain", "tags", "datm_score", "author",
     "created_at", "updated_at", "metadata"}

\* The tag set and the domain of a stored capsule, as create reported them
TagsOf(capsule_id) == Range(returned[capsule_id].tags)

DomainOf(capsule_id) == returned[capsule_id].domain

OverlapOf(a, b) == Cardinality(TagsOf(a) \cap TagsOf(b))

LargerSizeOf(a, b) == Max(Cardinality(TagsOf(a)), Cardinality(TagsOf(b)))

\* round(similarity * bonus, 3) in thousandths, from the contract's formula
ContractScore(target, candidate) ==
    IF TagsOf(target) = {} \/ TagsOf(candidate) = {}
    THEN 0
    ELSE RoundHalfEven(OverlapOf(target, candidate) * 100
                           * (IF DomainOf(target) = DomainOf(candidate) THEN 12 ELSE 10),
                       LargerSizeOf(target, candidate))

DetectSucceeded == last.op = "detect" /\ last.status = "ok"

DetectTarget == last.args.capsule_id

DetectThreshold == Field(last.args.query, "threshold", DefaultThreshold)

\* The step is a request of one of the kinds in ops (last changes with
\* every request but the repetition of one that changes nothing).
Answered(ops) == last' # last /\ last'.op \in ops

\* C1: once delete(id) has succeeded, get(id) fails with NotFound and id is in
\* no list result and no detect result, whatever requests came in between.
C1_DeletedStaysGone ==
    /\ (last.op = "get" /\ last.args.capsule_id \in deleted) => last.status = "NotFound"
    /\ last.op = "list" =>
           \A k \in 1..Len(last.result) : last.result[k].id \notin deleted
    /\ DetectSucceeded =>
           \A k \in 1..Len(last.result) : last.result[k].capsule_id \notin deleted

\* C2: detect returns exactly the other stored capsules whose score reaches
\* the threshold, by descending score, cut to the first `limit` (default 20).
C2_DetectExactUpToLimit ==
    DetectSucceeded =>
        LET result   == last.result
            limit    == Field(last.args.query, "limit", CollisionCap)
            expected == { c \in DOMAIN capsules \ {DetectTarget} :
                            ContractScore(DetectTarget, c) >= DetectThreshold }
            found    == { result[k].capsule_id : k \in 1..Len(result) }
        IN  /\ found \subseteq expected
            /\ Cardinality(found) = Len(result)
            /\ Len(result) = Min(limit, Cardinality(expected))
            /\ \A k \in 1..Len(result) :
                   result[k].score = ContractScore(DetectTarget, result[k].capsule_id)
            /\ \A j, k \in 1..Len(result) : j < k => result[j].score >= result[k].score
            /\ \A c \in expected \ found, k \in 1..Len(result) :
                   ContractScore(DetectTarget, c) <= result[k].score

\* C3: the score detect reports for a candidate is round(similarity * bonus, 3)
\* with similarity = overlap / larger tag-set size (0 when either set is
\* empty) and bonus 1.2 for equal domains, else 1.0; {ocean, climate} against
\* {ocean, policy} in one domain gives 0.6.
C3_ScoreIsContractScore ==
    DetectSucceeded =>
        \A k \in 1..Len(last.result) :
            LET candidate == last.result[k].capsule_id
            IN  /\ last.result[k].score = ContractScore(DetectTarget, candidate)
                /\ ( /\ TagsOf(DetectTarget) = {"ocean", "climate"}
                     /\ TagsOf(candidate) = {"ocean", "policy"}
                     /\ DomainOf(DetectTarget) = DomainOf(candidate) )
                   => last.result[k].score = 600

\* C3 witness: detect on A has reported B, and a detect at threshold 0 has
\* reported a candidate whose tag set is empty.
C3_Witness ==
    /\ DetectSucceeded
    /\ \E k \in 1..Len(last.result) :
           /\ TagsOf(DetectTarget) = {"ocean", "climate"}
           /\ TagsOf(last.result[k].capsule_id) = {"ocean", "policy"}
           /\ last.result[k].score = 600
    /\ \E k \in 1..Len(last.result) :
           /\ TagsOf(last.result[k].capsule_id) = {}
           /\ last.result[k].score = 0

\* C4: no entry of a detect result has the target's own id.
C4_TargetNotInResult ==
    DetectSucceeded =>
        \A k \in 1..Len(last.result) : last.result[k].capsule_id # DetectTarget

\* C4 witness: a detect at threshold 0, which every candidate passes, on a
\* target with tags has returned the two other stored capsules.
C4_Witness ==
    /\ DetectSucceeded
    /\ DetectThreshold = 0
    /\ TagsOf(DetectTarget) # {}
    /\ Len(last.result) = 2

\* Two entries of one detect result stand in the same domain relation to the
\* target, and the first shares more tags with it.
SharesMore(e1, e2) ==
    /\ (e1.domain = DomainOf(DetectTarget)) <=> (e2.domain = DomainOf(DetectTarget))
    /\ OverlapOf(DetectTarget, e1.capsule_id) > OverlapOf(DetectTarget, e2.capsule_id)

ScoreInRange ==
    \A k \in 1..Len(last.result) : 0 <= last.result[k].score /\ last.result[k].score <= 1200

\* C5 as stated: every score lies in [0, 1.2], and of two candidates in the
\* same domain relation to the target the one sharing more tags never scores
\* lower.
C5_MoreSharedNeverLower ==
    DetectSucceeded =>
        /\ ScoreInRange
        /\ \A j, k \in 1..Len(last.result) :
               SharesMore(last.result[j], last.result[k])
                   => last.result[j].score >= last.result[k].score

\* C5 amended: every score lies in [0, 1.2], and of two candidates in the same
\* domain relation to the target and with the same larger tag-set size
\* max(|target tags|, |candidate tags|), the one sharing more tags never
\* scores lower.
C5_MoreSharedNeverLowerAtEqualSize ==
    DetectSucceeded =>
        /\ ScoreInRange
        /\ \A j, k \in 1..Len(last.result) :
               ( /\ SharesMore(last.result[j], last.result[k])
                 /\ LargerSizeOf(DetectTarget, last.result[j].capsule_id)
                        = LargerSizeOf(DetectTarget, last.result[k].capsule_id) )
                   => last.result[j].score >= last.result[k].score

\* C5 witness: a detect result holds two candidates of equal larger size and
\* domain relation of which one shares more tags, and scores higher.
C5_Witness ==
    /\ DetectSucceeded
    /\ \E j, k \in 1..Len(last.result) :
           /\ SharesMore(last.result[j], last.result[k])
           /\ LargerSizeOf(DetectTarget, last.result[j].capsule_id)
                  = LargerSizeOf(DetectTarget, last.result[k].capsule_id)
           /\ last.result[j].score > last.result[k].score

\* A create body with a title and a content, neither of them empty
WellFormed(req) ==
    /\ "title" \in DOMAIN req /\ req.title # ""
    /\ "content" \in DOMAIN req /\ req.content # ""

\* C6: a create with a valid title and content generates an id no stored
\* capsule has, and inserts exactly one record under it.
C6_CreateInsertsUnderFreshId ==
    [][ (Answered({"create"}) /\ WellFormed(last'.args))
            => /\ last'.status = "ok"
               /\ last'.result.id \notin DOMAIN capsules
               /\ DOMAIN capsules' = DOMAIN capsules \cup {last'.result.id} ]_vars

\* C7: get on an id create returned, not deleted since, returns a record
\* that has every field of the data model, metadata too, equal to the
\* record create returned (tags as sets).
C7_GetEqualsCreated ==
    (last.op = "get" /\ last.status = "ok" /\ last.args.capsule_id \in DOMAIN returned) =>
        LET got     == last.result
            created == returned[last.args.capsule_id]
        IN  \A f \in CapsuleFields :
                /\ f \in DOMAIN got
                /\ f \in DOMAIN created
                /\ IF f = "tags" THEN Range(got[f]) = Range(created[f])
                                 ELSE got[f] = created[f]

\* C8: get, delete and detect on an id that is not in the store fail with
\* NotFound and leave the store as it was.
C8_AbsentIdNotFound ==
    [][ (Answered({"get", "delete", "detect"})
            /\ last'.args.capsule_id \notin DOMAIN capsules)
            => (last'.status = "NotFound" /\ capsules' = capsules) ]_vars

\* C8 witness: a delete of an id that is not stored has been answered
\* NotFound while the store holds capsules and another was deleted before.
C8_Witness ==
    /\ last.op = "delete"
    /\ last.status = "NotFound"
    /\ last.args.capsule_id \in deleted
    /\ DOMAIN capsules # {}

\* C9: a create with an empty title or an empty content is rejected with
\* ValidationError and inserts nothing.
C9_EmptyTitleOrContentRejected ==
    [][ ( /\ Answered({"create"})
          /\ \/ Field(last'.args, "title", None) = ""
             \/ Field(last'.args, "content", None) = "" )
            => (last'.status = "ValidationError" /\ capsules' = capsules) ]_vars

\* C10: list returns at most min(limit, 100) capsules (none for a limit
\* below 1), and never more than 100.
C10_ListAtMostLimit ==
    last.op = "list" =>
        /\ Len(last.result)
               <= Max(0, Min(Field(last.args, "limit", ListDefaultLimit), ListHardCap))
        /\ Len(last.result) <= ListHardCap

\* The stored capsules a list query asks for: those of its domain, when it
\* names one (the empty string too), with at least its min_score, when it
\* names one (0 too)
Matching(query) ==
    { c \in DOMAIN returned :
        /\ "domain" \in DOMAIN query => DomainOf(c) = query.domain
        /\ "min_score" \in DOMAIN query => returned[c].datm_score >= query.min_score }

\* C11: list returns only stored capsules of the given domain (the empty
\* string too) and of at least the given min_score (0 too), newest first, and
\* leaves a matching capsule out only when the limit is reached.
C11_ListFilteredNewestFirst ==
    last.op = "list" =>
        LET result == last.result
            found  == { result[k].id : k \in 1..Len(result) }
            limit  == Field(last.args, "limit", ListDefaultLimit)
        IN  /\ found \subseteq Matching(last.args)
            /\ Cardinality(found) = Len(result)
            /\ \A j, k \in 1..Len(result) :
                   j < k => result[j].created_at >= result[k].created_at
            /\ found # Matching(last.args) => Len(result) = Max(0, Min(limit, ListHardCap))

StatsAnswered == last.op = "stats" /\ last.status = "ok"

\* C12: total_count of stats is the number of capsules created and not
\* deleted since, and average_quality_score is 0 when total_count is 0.
C12_StatsCountsStored ==
    StatsAnswered =>
        /\ last.result.total_capsules = Cardinality(DOMAIN returned)
        /\ last.result.total_capsules = 0 => last.result.avg_datm_score = 0

\* C12 witness: stats has answered 0 and 0 on a store that a delete emptied.
C12_Witness ==
    /\ StatsAnswered
    /\ deleted # {}
    /\ last.result.total_capsules = 0
    /\ last.result.avg_datm_score = 0

\* A create has inserted a capsule for a body that gave no tags
CreatedWithoutTags ==
    /\ last.op = "create"
    /\ last.status = "ok"
    /\ Field(last.args, "tags", << >>) = << >>

\* The lower-cased whitespace-separated tokens of a content that are longer
\* than 3 characters and no stopword, in their order
SurvivingTokens(content) ==
    LET tokens == split(lower(content))
    IN  SelectSeq(tokens, LAMBDA t : ~(Len(t) <= 3) /\ t \notin stopwords)

\* C13: the stored tag set of a capsule created without tags has at most 5
\* members, no stopword and no token of 3 characters or fewer: it is the set
\* of the first 5 surviving tokens of the content.
C13_DerivedTags ==
    CreatedWithoutTags =>
        LET stored    == TagSet(capsules[last.result.id])
            surviving == SurvivingTokens(last.args.content)
        IN  /\ Cardinality(stored) <= 5
            /\ stored \cap stopwords = {}
            /\ \A t \in stored : Len(t) > 3
            /\ stored = { surviving[k] : k \in 1..Min(5, Len(surviving)) }
            /\ Range(last.result.tags) = stored

\* C13 witness: a capsule was created without tags from a content with more
\* than 5 surviving tokens, repeated ones, stopwords and short tokens.
C13_Witness ==
    /\ CreatedWithoutTags
    /\ "tags" \notin DOMAIN last.args
    /\ Len(SurvivingTokens(last.args.content)) > 5
    /\ Len(split(last.args.content)) > Len(SurvivingTokens(last.args.content))
    /\ TagSet(capsules[last.result.id]) = {"energy"}

\* Two delete requests of main_crud.py for one id have both been answered,
\* and the first began while the second was in progress
AnsweredConcurrently(w, v) ==
    /\ w # v
    /\ v \in workers[w].overlaps
    /\ workers[w].capsule_id = workers[v].capsule_id
    /\ workers[w].status # "running"
    /\ workers[v].status # "running"

\* C14: of two concurrent deletes of one existing id exactly one reports
\* success and the other NotFound.
C14_ConcurrentDeletesOneSucceeds ==
    \A w, v \in DOMAIN workers :
        AnsweredConcurrently(w, v) =>
            {workers[w].status, workers[v].status} = {"ok", "NotFound"}

\* round(similarity * bonus, 3) in thousandths of a candidate row against a
\* target row, from the contract's formula
RowScore(target, candidate) ==
    LET target_tags    == TagSet(target)
        candidate_tags == TagSet(candidate)
    IN  IF target_tags = {} \/ candidate_tags = {}
        THEN 0
        ELSE RoundHalfEven(Cardinality(target_tags \cap candidate_tags) * 100
                               * (IF target.domain = candidate.domain THEN 12 ELSE 10),
                           Max(Cardinality(target_tags), Cardinality(candidate_tags)))

\* The answer is one detect gives on the table db, all of it at once:
\* NotFound when the target is not in db, else the other capsules of db that
\* reach the threshold, with their scores, by descending score, cut at 20.
IsAnswerOn(db, capsule_id, threshold, answer) ==
    IF capsule_id \notin DOMAIN db
    THEN answer.status = "NotFound"
    ELSE LET result   == answer.result
             found    == { result[k].capsule_id : k \in 1..Len(result) }
             expected == { c \in DOMAIN db \ {capsule_id} :
                             RowScore(db[capsule_id], db[c]) >= threshold }
         IN  /\ answer.status = "ok"
             /\ found \subseteq expected
             /\ Cardinality(found) = Len(result)
             /\ Len(result) = Min(CollisionCap, Cardinality(expected))
             /\ \A k \in 1..Len(result) :
                    /\ result[k].score = RowScore(db[capsule_id], db[result[k].capsule_id])
                    /\ result[k].title = db[result[k].capsule_id].title
                    /\ result[k].domain = db[result[k].capsule_id].domain
             /\ \A j, k \in 1..Len(result) : j < k => result[j].score >= result[k].score
             /\ \A c \in expected \ found, k \in 1..Len(result) :
                    RowScore(db[capsule_id], db[c]) <= result[k].score

\* Since the detect p began, the table has lost at most one row to a delete
\* and has changed in no other way.
OneDeleteSince(p) ==
    /\ \A i \in DOMAIN capsules : i \in DOMAIN p.before /\ capsules[i] = p.before[i]
    /\ Cardinality(DOMAIN p.before \ DOMAIN capsules) <= 1

\* C15: a detect that ran while a delete did answers as a detect on the
\* table before the delete or on the table after it would, and reports only
\* capsules that were stored when it began (none deleted before that).
C15_DetectBeforeOrAfterDelete ==
    [][ \A p \in pending \ pending' :
            OneDeleteSince(p) =>
                LET threshold == Field(p.query, "threshold", DefaultThreshold)
                IN  /\ \/ IsAnswerOn(p.before, p.capsule_id, threshold, last')
                       \/ IsAnswerOn(capsules, p.capsule_id, threshold, last')
                    /\ \A k \in 1..Len(last'.result) :
                           last'.result[k].capsule_id \in DOMAIN p.before
      ]_vars

\* C15 witness: a detect has answered with a match although its target is
\* no longer stored: the target's delete succeeded between the detect's two
\* statements.
C15_Witness ==
    /\ DetectSucceeded
    /\ pending = {}
    /\ DetectTarget \notin DOMAIN capsules
    /\ DetectTarget \in deleted
    /\ Len(last.result) >= 1

\* A stored row has a tag collection, a domain and a quality score in
\* [0, 100] (a column the INSERT did not name is NULL)
WellStored(row) ==
    /\ "tags" \in DOMAIN row /\ row.tags # None
    /\ "domain" \in DOMAIN row /\ row.domain # None
    /\ "datm_score" \in DOMAIN row /\ 0 <= row.datm_score /\ row.datm_score <= 10000

\* C16: every stored capsule has a non-null tag collection, a non-null domain
\* ("general" when the caller gave none) and a quality score in [0, 100],
\* whichever create of the repository inserted it.
C16_StoredCapsulesWellFormed ==
    /\ \A i \in DOMAIN capsules : WellStored(capsules[i])
    /\ \A i \in DOMAIN crud_capsules : WellStored(crud_capsules[i])
    /\ (last.op = "create" /\ last.status = "ok" /\ "domain" \notin DOMAIN last.args)
           => capsules[last.result.id].domain = "general"

\* C17: detect, get, list and stats leave the capsules table as it was, every
\* row and every field, and detect adds no row to the collisions table.
C17_ReadsChangeNothing ==
    [][ Answered({"detect", "get", "list", "stats"})
            => (capsules' = capsules /\ collisions' = collisions) ]_vars

\* C17 witness: a detect has reported two matches, and the collisions table
\* is empty.
C17_Witness ==
    /\ DetectSucceeded
    /\ Len(last.result) = 2
    /\ collisions = {}
    /\ Cardinality(DOMAIN capsules) = 3

\* Every row of the table before the step is in the table after it, unchanged,
\* but the row of capsule_id
OthersKept(capsule_id) ==
    \A i \in DOMAIN capsules \ {capsule_id} :
        i \in DOMAIN capsules' /\ capsules'[i] = capsules[i]

\* C18: a successful create adds exactly one record and a successful delete
\* removes exactly the record of its id; every other stored capsule stays,
\* with all its fields.
C18_WritesTouchOneRecord ==
    [][ /\ (Answered({"create"}) /\ last'.status = "ok")
            => /\ last'.result.id \notin DOMAIN capsules
               /\ DOMAIN capsules' = DOMAIN capsules \cup {last'.result.id}
               /\ OthersKept(last'.result.id)
        /\ (Answered({"delete"}) /\ last'.status = "ok")
            => /\ last'.args.capsule_id \in DOMAIN capsules
               /\ DOMAIN capsules' = DOMAIN capsules \ {last'.args.capsule_id}
               /\ OthersKept(last'.args.capsule_id) ]_vars

\* C18 witness: a delete has succeeded on a store of three capsules and has
\* left two.
C18_Witness ==
    /\ last.op = "delete"
    /\ last.status = "ok"
    /\ Cardinality(DOMAIN capsules) = 2

\* The score detect(target) computes for the stored capsule candidate
ScoredBy(target, candidate) ==
    final_score(similarity(TagSet(capsules[target]), TagSet(capsules[candidate])),
                domain_bonus(capsules[candidate].domain, capsules[target].domain))

\* C19: the score detect(A) reports for B is the score detect(B) computes
\* for A, and when the result is not cut B is in detect(A) exactly if A
\* reaches the threshold in detect(B); the score of any two stored capsules
\* is the same in both directions.
C19_ScoreSymmetric ==
    /\ \A a, b \in DOMAIN capsules : a # b => ScoredBy(a, b) = ScoredBy(b, a)
    /\ DetectSucceeded =>
           LET result == last.result
               found  == { result[k].capsule_id : k \in 1..Len(result) }
           IN  /\ \A k \in 1..Len(result) :
                      result[k].score = ScoredBy(result[k].capsule_id, DetectTarget)
               /\ Len(result) < CollisionCap =>
                      \A b \in DOMAIN capsules \ {DetectTarget} :
                          b \in found <=> ScoredBy(b, DetectTarget) >= DetectThreshold

\* C19 witness: a detect has reported, with a score above 0, a candidate whose
\* tag set is larger than the target's, and one whose tag set is as large.
C19_Witness ==
    /\ DetectSucceeded
    /\ \E j, k \in 1..Len(last.result) :
           /\ last.result[j].score > 0
           /\ Cardinality(TagsOf(last.result[j].capsule_id)) > Cardinality(TagsOf(DetectTarget))
           /\ last.result[k].score > 0
           /\ Cardinality(TagsOf(last.result[k].capsule_id)) = Cardinality(TagsOf(DetectTarget))

RECURSIVE SumOver(_, _)
SumOver(counts, keys) ==
    IF keys = {} THEN 0
    ELSE LET d == CHOOSE x \in keys : TRUE
         IN  counts[d] + SumOver(counts, keys \ {d})

\* C20: the per-domain counts of stats sum to total_count, and the count of
\* each domain is the number of stored capsules of that domain.
C20_DomainCountsAddUp ==
    StatsAnswered =>
        LET domains == last.result.domains
        IN  /\ SumOver(domains, DOMAIN domains) = last.result.total_capsules
            /\ \A c \in DOMAIN returned : DomainOf(c) \in DOMAIN domains
            /\ \A d \in DOMAIN domains :
                   domains[d] = Cardinality({ c \in DOMAIN returned : DomainOf(c) = d })

\* C20 witness: stats has counted two capsules in one domain and one in
\* another.
C20_Witness ==
    /\ StatsAnswered
    /\ last.result.total_capsules = 3
    /\ Cardinality(DOMAIN last.result.domains) = 2
    /\ \E d \in DOMAIN last.result.domains : last.result.domains[d] = 2

============================================================================
